---- MODULE Spec2Model ----
(***************************************************************************)
(* Realtime synchronisation core of the koordinator web client:           *)
(* ChatPage (message list, typing set, mark-read), MainLayout (unread      *)
(* counters and notification routing) and ChannelSidebar (clear-unread).   *)
(* Each React state cell, ref and react-query cache entry that the         *)
(* handlers read or write is a variable; each handler, effect or timer     *)
(* callback is one action.                                                 *)
(***************************************************************************)
EXTENDS Integers, Sequences, FiniteSets, TLC

(***************************************************************************)
(* Bounds of the model.                                                    *)
(***************************************************************************)
MaxMsgId == 3        \* server message ids are 1..MaxMsgId
MaxPages == 2        \* history pages cached per channel
MaxTimers == 1       \* pending setTimeout(0) merge callbacks
MaxInFlight == 1     \* mark-read requests in flight
MaxReplyCount == 2   \* cap on a parent's reply_count
MaxTime == 9         \* the clock stops here
MaxUnread == 2       \* cap on an unread counter
MaxDocId == 1        \* document ids are 1..MaxDocId
MaxReactions == 2    \* cap on the reactions the message list holds
MaxOnline == 4       \* cap on a cached online_count
PageSize == 2        \* messages of a full history page (50 in the client)
MaxRequests == 3     \* api requests
MaxToken == 2        \* access tokens the server issues are 1..MaxToken

(***************************************************************************)
(* Identities.                                                             *)
(***************************************************************************)
Me == 1              \* user?.id of the signed-in user
Other == 2           \* user_id of another participant
Third == 3           \* user_id of a third participant
TypingTimeout == 5   \* seconds before a typing entry expires
NoParent == 0        \* parent_id absent (falsy)
NoDocument == 0      \* message.document_id absent (falsy)
NoId == 0            \* id absent (undefined)
Board == 0           \* value of channelId while location.pathname is '/board'
Users == {Me, Other, Third}
Emojis == {"+1", "ok"}
Reactors == {Me, Other}
MembersOf(c) == IF c = 1 THEN Users ELSE {Me, Other}
Channels == {1, 2}
MsgIds == 1..MaxMsgId
DocIds == 1..MaxDocId
\* no read_receipt frame handled yet
NoReceipt == [channel_id |-> NoId, user_id |-> NoId, last_read_id |-> NoId, met |-> NoId]
NoToken == 0          \* no access token: getTokens().token null, no Authorization header
Requests == 1..MaxRequests

(***************************************************************************)
(* The server's message log: a message id determines its channel, author   *)
(* and parent.  Frames and history pages carry these records.              *)
(***************************************************************************)
ChannelOf(id) == IF id % 3 = 0 THEN 2 ELSE 1
AuthorOf(id) == IF id % 2 = 0 THEN Me ELSE Other
ParentOf(id) ==
    IF id % 2 = 0 /\ ChannelOf(id - 1) = ChannelOf(id) THEN id - 1 ELSE NoParent

ServerMessage(id) ==
    [id |-> id, channel_id |-> ChannelOf(id), user_id |-> AuthorOf(id),
     parent_id |-> ParentOf(id), reply_count |-> 0, reactions |-> <<>>]

VARIABLES
    channelId,          \* useParams().channelId: the open channel, or Board
    messages,           \* useState<Message[]>
    historyPages,       \* react-query cache ['messages', c]: historyData.pages
    mergeTimers,        \* pending setTimeout(0) callbacks of the merge effect
    deleted,            \* history: ids whose message_deleted was handled since the
                        \* open channel was opened
    pageRequests,       \* channel -> fetchNextPage requests of ['messages', c] in flight
    inputMessage,       \* MessageInput draft: TRUE when inputMessage.trim() is non-empty
    activeThread,       \* id of the message being replied to, or NoParent
    isConnected,        \* useWebSocket().isConnected
    wsOut,              \* payloads handed to sendMessage: [channel_id, parent_id]
    markReadInFlight,   \* channel ids of the POST /read requests in flight, oldest first
    markReadPending,    \* markReadMutation.isPending (state of the latest mutation)
    unreadCounts,       \* useUnreadStore().unreadCounts
    unreadDocs,         \* useUnreadStore().unreadDocs: document id -> channel id
    typingUsers,        \* useState: user id -> timestamp of the entry
    typingTimeoutRef,   \* useRef: user id -> handle (due time) of the user's last timer
    timers,             \* expiry timers not yet fired or cleared: [user_id, due]
    now,                \* Date.now(), in seconds
    channelCache,       \* react-query cache ['channel', c]
    membersCache,       \* react-query cache ['channel_members', c]
    lastReceipt,        \* history: the read_receipt frame handled last, with the
                        \* others_read_id it met, or NoReceipt
    channels,           \* react-query cache ['channels'] as MainLayout reads it
    notify_sound,       \* user?.notify_sound
    notify_browser,     \* user?.notify_browser !== false
    effects,            \* side effects fired by the latest MainLayout handler run
    isRefreshing,       \* api/client.ts: let isRefreshing
    failedQueue,        \* api/client.ts: let failedQueue, as the queued requests
    requests,           \* request -> [status, retry (originalRequest._retry), token
                        \* (the access token of its Authorization header)]
    storage,            \* localStorage 'auth-storage': [token, refreshToken]
    refreshInFlight,    \* POST /auth/refresh requests awaiting their response
    redirecting,        \* window.location.href = '/login' assigned, page not yet unloaded
    lastEvent           \* history: the handler, effect or callback that ran last

storeVars == <<historyPages, mergeTimers, deleted, pageRequests>>
inputVars == <<inputMessage, activeThread, wsOut>>
readVars == <<markReadInFlight, markReadPending>>
typingVars == <<typingUsers, typingTimeoutRef, timers>>
cacheVars == <<channelCache, membersCache, lastReceipt>>
layoutVars == <<channels, notify_sound, notify_browser, effects, unreadDocs>>
clientVars == <<isRefreshing, failedQueue, requests, storage, refreshInFlight, redirecting>>

pageVars == <<channelId, messages, storeVars, inputVars, isConnected, readVars,
              unreadCounts, typingVars, now, cacheVars, layoutVars>>

vars == <<pageVars, clientVars, lastEvent>>

(***************************************************************************)
(* Sequence helpers.                                                       *)
(***************************************************************************)
Ids(msgs) == {msgs[i].id : i \in DOMAIN msgs}

\* Array.prototype.filter: the entries at the indices K, in order
RECURSIVE SeqFilter(_, _)
SeqFilter(s, K) ==
    IF s = <<>> THEN <<>>
    ELSE LET n == Len(s)
             rest == SeqFilter(SubSeq(s, 1, n - 1), K)
         IN  IF n \in K THEN Append(rest, s[n]) ELSE rest

\* pages.flat()
RECURSIVE Flat(_)
Flat(pages) == IF pages = <<>> THEN <<>> ELSE Head(pages) \o Flat(Tail(pages))

\* Array.from(new Map(combined.map(m => [m.id, m])).values()): one entry per id,
\* at the position of the id's first occurrence, holding its last occurrence.
LastWithId(combined, id) ==
    combined[CHOOSE i \in DOMAIN combined :
                /\ combined[i].id = id
                /\ \A j \in DOMAIN combined : combined[j].id = id => j <= i]

RECURSIVE FirstOccurrences(_, _)
FirstOccurrences(s, seen) ==
    IF s = <<>> THEN <<>>
    ELSE IF Head(s).id \in seen THEN FirstOccurrences(Tail(s), seen)
    ELSE <<Head(s).id>> \o FirstOccurrences(Tail(s), seen \cup {Head(s).id})

UniqueById(combined) ==
    LET keys == FirstOccurrences(combined, {})
    IN  [i \in DOMAIN keys |-> LastWithId(combined, keys[i])]

\* .sort((a, b) => a.id - b.id): a stable insertion sort
RECURSIVE InsertById(_, _)
InsertById(sorted, m) ==
    IF sorted = <<>> THEN <<m>>
    ELSE IF m.id - Head(sorted).id < 0 THEN <<m>> \o sorted
    ELSE <<Head(sorted)>> \o InsertById(Tail(sorted), m)

RECURSIVE SortById(_)
SortById(s) ==
    IF s = <<>> THEN <<>>
    ELSE InsertById(SortById(SubSeq(s, 1, Len(s) - 1)), s[Len(s)])

(***************************************************************************)
(* The setMessages updaters of ChatPage.                                   *)
(***************************************************************************)
\* history merge effect: [...allHistory, ...prev] -> unique by id -> sorted by id
MergeHistoryReplace(pages, prev) == SortById(UniqueById(Flat(pages)))

MergeHistory(pages, prev) == SortById(UniqueById(Flat(pages) \o prev))

\* new_message branch, reply part: bump the parent's reply_count
BumpReplyCount(prev, message) ==
    IF message.parent_id # NoParent
    THEN [i \in DOMAIN prev |->
            IF prev[i].id = message.parent_id
            THEN [prev[i] EXCEPT !.reply_count = @ + 1]
            ELSE prev[i]]
    ELSE prev

AppendMessageNoDedupe(prev, message) == Append(prev, message)

\* new_message branch, append part
AppendMessage(prev, message) ==
    IF \E i \in DOMAIN prev : prev[i].id = message.id THEN prev
    ELSE Append(prev, message)

\* the two setMessages calls of the new_message branch, in order
ApplyNewMessage(prev, message) == AppendMessage(BumpReplyCount(prev, message), message)

\* message_deleted branch
RemoveMessage(prev, message_id) ==
    SeqFilter(prev, {i \in DOMAIN prev : prev[i].id # message_id})

\* reaction_added branch
HasReaction(reactions, user_id, emoji) ==
    \E i \in DOMAIN reactions :
        reactions[i].user_id = user_id /\ reactions[i].emoji = emoji

AddReactionNoCheck(prev, message_id, reaction) ==
    [i \in DOMAIN prev |->
        IF prev[i].id = message_id
        THEN [prev[i] EXCEPT !.reactions = Append(@, reaction)]
        ELSE prev[i]]

AddReaction(prev, message_id, reaction) ==
    [i \in DOMAIN prev |->
        IF prev[i].id = message_id
        THEN IF HasReaction(prev[i].reactions, reaction.user_id, reaction.emoji)
             THEN prev[i]
             ELSE [prev[i] EXCEPT !.reactions = Append(@, reaction)]
        ELSE prev[i]]

\* reaction_removed branch
RemoveReaction(prev, message_id, user_id, emoji) ==
    LET Keep(reactions) ==
            {k \in DOMAIN reactions :
                ~(reactions[k].user_id = user_id /\ reactions[k].emoji = emoji)}
    IN  [i \in DOMAIN prev |->
            IF prev[i].id = message_id
            THEN [prev[i] EXCEPT !.reactions = SeqFilter(@, Keep(@))]
            ELSE prev[i]]

(***************************************************************************)
(* groupReactions: one group per emoji, in the insertion order of the keys *)
(* of the groups object (the emoji are not integer-like strings).          *)
(***************************************************************************)
AddToGroupsAlwaysNew(groups, r) ==
    Append(groups, [emoji |-> r.emoji, count |-> 1, users |-> <<r.user_id>>,
                    hasMine |-> r.user_id = Me])

\* the body of reactions.forEach
AddToGroups(groups, r) ==
    LET known == \E g \in DOMAIN groups : groups[g].emoji = r.emoji
        start == IF known THEN groups
                 ELSE Append(groups, [emoji |-> r.emoji, count |-> 0, users |-> <<>>,
                                      hasMine |-> FALSE])
    IN  [g \in DOMAIN start |->
            IF start[g].emoji = r.emoji
            THEN [emoji |-> r.emoji,
                  count |-> start[g].count + 1,
                  users |-> Append(start[g].users, r.user_id),
                  hasMine |-> start[g].hasMine \/ r.user_id = Me]
            ELSE start[g]]

RECURSIVE groupReactions(_)
groupReactions(reactions) ==
    IF reactions = <<>> THEN <<>>
    ELSE AddToGroups(groupReactions(SubSeq(reactions, 1, Len(reactions) - 1)),
                     reactions[Len(reactions)])

(***************************************************************************)
(* Object maps (Record<number, ...>): set and delete a key.                *)
(***************************************************************************)
MapSet(f, k, v) == [x \in DOMAIN f \cup {k} |-> IF x = k THEN v ELSE f[x]]

MapDelete(f, k) == [x \in DOMAIN f \ {k} |-> f[x]]

Max(a, b) == IF a >= b THEN a ELSE b

(***************************************************************************)
(* Frames of the channel socket (WebSocketMessage).                        *)
(***************************************************************************)
NewMessageFrame(id) ==
    [type |-> "new_message", id |-> id, channel_id |-> ChannelOf(id),
     user_id |-> AuthorOf(id), parent_id |-> ParentOf(id),
     reply_count |-> 0, reactions |-> <<>>]

MessageDeletedFrame(id) == [type |-> "message_deleted", message_id |-> id]

TypingFrame(u, t) == [type |-> "typing", user_id |-> u, is_typing |-> t]

ReadReceiptFrame(c, u, id) ==
    [type |-> "read_receipt", channel_id |-> c, user_id |-> u, last_read_id |-> id]

UserPresenceFrame(u, st) == [type |-> "user_presence", user_id |-> u, status |-> st]

ReactionAddedFrame(id, u, e) ==
    [type |-> "reaction_added", message_id |-> id,
     reaction |-> [user_id |-> u, emoji |-> e]]

ReactionRemovedFrame(id, u, e) ==
    [type |-> "reaction_removed", message_id |-> id, user_id |-> u, emoji |-> e]

PresenceFrame(n) == [type |-> "presence", online_count |-> n]

\* a frame of a kind the handler does not know, with the fields of a message
UnknownFrame(id) == [NewMessageFrame(id) EXCEPT !.type = "unknown_kind"]

\* Message & { type?: never }: a message without a type field
TypelessFrame(id) == [NewMessageFrame(id) EXCEPT !.type = ""]

\* a new_message frame without an id
IdlessFrame(c, u) ==
    [type |-> "new_message", id |-> NoId, channel_id |-> c, user_id |-> u,
     parent_id |-> NoParent, reply_count |-> 0, reactions |-> <<>>]

\* const message: Message = data
AsMessage(data) ==
    [id |-> data.id, channel_id |-> data.channel_id, user_id |-> data.user_id,
     parent_id |-> data.parent_id, reply_count |-> data.reply_count,
     reactions |-> data.reactions]

(***************************************************************************)
(* History pages as the REST collaborator returns them: any subset of the  *)
(* channel's messages, ascending inside a page, with the server's          *)
(* reply_count.                                                            *)
(***************************************************************************)
HistoryMessage(id) ==
    [ServerMessage(id) EXCEPT
        !.reply_count = Cardinality({r \in MsgIds : ParentOf(r) = id})]

RECURSIVE AscendingSeq(_)
AscendingSeq(S) ==
    IF S = {} THEN <<>>
    ELSE LET lo == CHOOSE x \in S : \A y \in S : x <= y
         IN  <<HistoryMessage(lo)>> \o AscendingSeq(S \ {lo})

PagesOf(c) == {AscendingSeq(S) : S \in SUBSET {id \in MsgIds : ChannelOf(id) = c}}

(***************************************************************************)
(* Initial state: ChatPage mounted on channel 1, nothing loaded.           *)
(***************************************************************************)
Mounted ==
    /\ inputMessage = FALSE
    /\ activeThread = NoParent
    /\ isConnected = FALSE
    /\ wsOut = {}
    /\ markReadInFlight = <<>>
    /\ markReadPending = FALSE
    /\ unreadCounts = [c \in Channels |-> 0]
    /\ unreadDocs = <<>>
    /\ typingUsers = <<>>
    /\ typingTimeoutRef = <<>>
    /\ timers = {}
    /\ now = 0
    /\ channelCache = [c \in Channels |->
                          [loaded |-> FALSE, unread_count |-> 0,
                           others_read_id |-> 0, online_count |-> 0]]
    /\ membersCache = [c \in Channels |-> [loaded |-> FALSE, online |-> {}]]
    /\ lastReceipt = NoReceipt
    /\ channels = [loaded |-> FALSE, unread_count |-> [c \in Channels |-> 0],
                   muted |-> {}]
    /\ notify_sound = TRUE
    /\ notify_browser = TRUE
    /\ effects = {}
    /\ isRefreshing = FALSE
    /\ failedQueue = <<>>
    /\ requests = [r \in Requests |-> [status |-> "idle", retry |-> FALSE, token |-> NoToken]]
    /\ storage = [token |-> 1, refreshToken |-> TRUE]
    /\ refreshInFlight = 0
    /\ redirecting = FALSE
    /\ lastEvent = "mount"

Init ==
    /\ channelId = 1
    /\ messages = <<>>
    /\ historyPages = [c \in Channels |-> <<>>]
    /\ mergeTimers = <<>>
    /\ deleted = {}
    /\ pageRequests = [c \in Channels |-> 0]
    /\ Mounted

(***************************************************************************)
(* useUnreadStore (zustand store).                                         *)
(***************************************************************************)
clearUnread(counts, c) == [counts EXCEPT ![c] = 0]

addUnread(counts, c) == [counts EXCEPT ![c] = @ + 1]

syncUnreads(counts, snapshot) ==
    [c \in DOMAIN counts |-> IF c \in DOMAIN snapshot THEN snapshot[c] ELSE counts[c]]

addDocUnread(docs, document_id, c) ==
    [d \in DOMAIN docs \cup {document_id} |-> IF d = document_id THEN c ELSE docs[d]]

clearDocUnread(docs) == <<>>

(***************************************************************************)
(* markReadMutation.                                                       *)
(***************************************************************************)
\* markReadMutation.mutate(id): one more POST /chat/channels/{id}/read in flight
MarkReadMutate(id) ==
    /\ Len(markReadInFlight) < MaxInFlight
    /\ markReadInFlight' = Append(markReadInFlight, id)
    /\ markReadPending' = TRUE

RemoveAt(s, i) == SubSeq(s, 1, i - 1) \o SubSeq(s, i + 1, Len(s))

\* onSuccess: if (channelId) clearUnread(Number(channelId)), channelId being the
\* route parameter of the render current when the response lands
MarkReadOnSuccess(counts, id, open) == clearUnread(counts, open)

MarkReadSucceeds(i) ==
        /\ i \in DOMAIN markReadInFlight
        /\ lastEvent' = "markReadSuccess"
        /\ unreadCounts' = MarkReadOnSuccess(unreadCounts, markReadInFlight[i], channelId)
        /\ markReadInFlight' = RemoveAt(markReadInFlight, i)
        /\ markReadPending' = IF i = Len(markReadInFlight) THEN FALSE ELSE markReadPending
        /\ UNCHANGED <<channelId, messages, storeVars, inputVars, isConnected,
                       typingVars, now, clientVars, cacheVars, layoutVars>>

MarkReadSuccess == \E i \in 1..MaxInFlight : MarkReadSucceeds(i)

\* the request fails: there is no onError handler
MarkReadFailure ==
    \E i \in DOMAIN markReadInFlight :
        /\ lastEvent' = "markReadFailure"
        /\ markReadInFlight' = RemoveAt(markReadInFlight, i)
        /\ markReadPending' = IF i = Len(markReadInFlight) THEN FALSE ELSE markReadPending
        /\ UNCHANGED <<channelId, messages, storeVars, inputVars, isConnected,
                       unreadCounts, typingVars, now, clientVars, cacheVars, layoutVars>>

\* markAsRead, run by the effect on [channelId, channel, markAsRead]
MarkAsReadEffect ==
    /\ lastEvent' = "markAsRead"
    /\ channelCache[channelId].loaded
    /\ channelCache[channelId].unread_count > 0
    /\ ~markReadPending
    /\ MarkReadMutate(channelId)
    /\ UNCHANGED <<channelId, messages, storeVars, inputVars, isConnected,
                   unreadCounts, typingVars, now, clientVars, cacheVars, layoutVars>>

(***************************************************************************)
(* Channel switch: the route parameter changes; the reset layout effect,   *)
(* the ChannelSidebar clear-unread effect and the history merge effect     *)
(* (when the new channel's pages are cached) run in the same commit.       *)
(***************************************************************************)
ScheduleMerge(pending, pages) == Append(pending, pages)

SwitchChannel(c) ==
    /\ lastEvent' = "switchChannel"
    /\ c # channelId
    /\ channelId' = c
    /\ messages' = <<>>
    /\ deleted' = {}
    /\ activeThread' = NoParent
    /\ unreadCounts' = clearUnread(unreadCounts, c)
    /\ IF historyPages[c] # <<>>
       THEN /\ Len(mergeTimers) < MaxTimers
            /\ mergeTimers' = ScheduleMerge(mergeTimers, historyPages[c])
       ELSE mergeTimers' = mergeTimers
    /\ UNCHANGED <<historyPages, pageRequests, inputMessage, wsOut, isConnected, readVars,
                   typingVars, now, clientVars, cacheVars, layoutVars>>

(***************************************************************************)
(* useInfiniteQuery(['messages', channelId]) and the merge effect.         *)
(***************************************************************************)
\* the effect on [historyData?.pages]: runs when the open channel's pages change
HistoryEffect(c, pages) ==
    IF c = channelId
    THEN /\ Len(mergeTimers) < MaxTimers
         /\ mergeTimers' = ScheduleMerge(mergeTimers, pages)
    ELSE mergeTimers' = mergeTimers

\* a page response lands in the cache of channel c (first page or fetchNextPage)
\* and settles the fetchNextPage request that asked for it
HistoryPageLoaded(c, page) ==
    /\ lastEvent' = "historyPageLoaded"
    /\ Len(historyPages[c]) < MaxPages
    /\ historyPages' = [historyPages EXCEPT ![c] = Append(@, page)]
    /\ HistoryEffect(c, historyPages'[c])
    /\ pageRequests' = IF pageRequests[c] > 0
                       THEN [pageRequests EXCEPT ![c] = @ - 1]
                       ELSE pageRequests
    /\ UNCHANGED <<channelId, messages, deleted, inputVars, isConnected, readVars,
                   unreadCounts, typingVars, now, clientVars, cacheVars, layoutVars>>

\* a refetch replaces the first cached page of channel c
HistoryRefetched(c, page) ==
    /\ lastEvent' = "historyRefetched"
    /\ historyPages[c] # <<>>
    /\ page # historyPages[c][1]
    /\ historyPages' = [historyPages EXCEPT ![c] = [@ EXCEPT ![1] = page]]
    /\ HistoryEffect(c, historyPages'[c])
    /\ UNCHANGED <<channelId, messages, deleted, pageRequests, inputVars, isConnected,
                   readVars, unreadCounts, typingVars, now, clientVars, cacheVars, layoutVars>>

\* the setTimeout(0) callback: setMessages(prev => merge of the captured pages)
RunMergeTimer ==
    /\ lastEvent' = "mergeHistory"
    /\ mergeTimers # <<>>
    /\ messages' = MergeHistory(Head(mergeTimers), messages)
    /\ mergeTimers' = Tail(mergeTimers)
    /\ UNCHANGED <<channelId, historyPages, deleted, pageRequests, inputVars, isConnected, readVars,
                   unreadCounts, typingVars, now, clientVars, cacheVars, layoutVars>>

(***************************************************************************)
(* ChatPage.onMessage: the handler of the channel socket.                  *)
(***************************************************************************)
\* clearTimeout(typingTimeoutRef.current[user_id])
ClearTypingTimeoutNever(pending, ref, u) == pending

\* if (typingTimeoutRef.current[user_id]) clearTimeout(...)
ClearTypingTimeout(pending, ref, u) ==
    IF u \in DOMAIN ref THEN pending \ {[user_id |-> u, due |-> ref[u]]} ELSE pending

TypingBranch(data) ==
    LET u == data.user_id
    IN  IF u = Me THEN UNCHANGED typingVars
        ELSE IF data.is_typing
        THEN /\ typingUsers' = MapSet(typingUsers, u, now)
             /\ timers' = ClearTypingTimeout(timers, typingTimeoutRef, u)
                              \cup {[user_id |-> u, due |-> now + TypingTimeout]}
             /\ typingTimeoutRef' = MapSet(typingTimeoutRef, u, now + TypingTimeout)
        ELSE /\ typingUsers' = MapDelete(typingUsers, u)
             /\ timers' = ClearTypingTimeout(timers, typingTimeoutRef, u)
             /\ UNCHANGED typingTimeoutRef

ReadReceiptBranchOverwrite(data) ==
    IF channelId = data.channel_id /\ channelCache[channelId].loaded
    THEN channelCache' =
            [channelCache EXCEPT ![channelId].others_read_id = data.last_read_id]
    ELSE UNCHANGED channelCache

ReadReceiptBranch(data) ==
    IF channelId = data.channel_id /\ channelCache[channelId].loaded
    THEN channelCache' =
            [channelCache EXCEPT ![channelId].others_read_id = Max(@, data.last_read_id)]
    ELSE UNCHANGED channelCache

UserPresenceBranch(data) ==
    membersCache' =
        [c \in Channels |->
            IF membersCache[c].loaded /\ data.user_id \in MembersOf(c)
            THEN [membersCache[c] EXCEPT
                    !.online = IF data.status = "online"
                               THEN @ \cup {data.user_id}
                               ELSE @ \ {data.user_id}]
            ELSE membersCache[c]]

PresenceBranch(data) ==
    IF channelCache[channelId].loaded
    THEN channelCache' = [channelCache EXCEPT ![channelId].online_count = data.online_count]
    ELSE UNCHANGED channelCache

NewMessageBranch(data) ==
    LET message == AsMessage(data)
    IN  /\ \A i \in DOMAIN messages :
              (message.parent_id # NoParent /\ messages[i].id = message.parent_id)
                  => messages[i].reply_count < MaxReplyCount
        /\ messages' = ApplyNewMessage(messages, message)
        /\ IF channelId = message.channel_id /\ message.user_id # Me
           THEN MarkReadMutate(channelId)
           ELSE UNCHANGED readVars

IsMessageFrameAny(data) == TRUE

\* the last test of the handler: data.type === 'new_message' || !data.type
IsMessageFrame(data) == data.type = "new_message" \/ data.type = ""

onMessage(data) ==
    /\ lastEvent' = data.type
    /\ deleted' = IF data.type = "message_deleted"
                  THEN deleted \cup {data.message_id}
                  ELSE deleted
    /\ lastReceipt' = IF data.type = "read_receipt"
                      THEN [channel_id |-> data.channel_id, user_id |-> data.user_id,
                            last_read_id |-> data.last_read_id,
                            met |-> channelCache[channelId].others_read_id]
                      ELSE lastReceipt
    /\ UNCHANGED <<channelId, historyPages, mergeTimers, pageRequests, inputVars, isConnected,
                   unreadCounts, now, clientVars, layoutVars>>
    /\ IF data.type = "typing"
       THEN TypingBranch(data) /\ UNCHANGED <<messages, readVars, cacheVars>>
       ELSE IF data.type = "read_receipt"
       THEN ReadReceiptBranch(data)
            /\ UNCHANGED <<messages, readVars, typingVars, membersCache>>
       ELSE IF data.type = "user_presence"
       THEN UserPresenceBranch(data)
            /\ UNCHANGED <<messages, readVars, typingVars, channelCache>>
       ELSE IF data.type = "reaction_added"
       THEN /\ messages' = AddReaction(messages, data.message_id, data.reaction)
            /\ UNCHANGED <<readVars, typingVars, cacheVars>>
       ELSE IF data.type = "reaction_removed"
       THEN /\ messages' = RemoveReaction(messages, data.message_id, data.user_id,
                                          data.emoji)
            /\ UNCHANGED <<readVars, typingVars, cacheVars>>
       ELSE IF data.type = "presence"
       THEN PresenceBranch(data)
            /\ UNCHANGED <<messages, readVars, typingVars, membersCache>>
       ELSE IF data.type = "message_deleted"
       THEN /\ messages' = RemoveMessage(messages, data.message_id)
            /\ UNCHANGED <<readVars, typingVars, cacheVars>>
       ELSE IF IsMessageFrame(data)
       THEN NewMessageBranch(data) /\ UNCHANGED <<typingVars, cacheVars>>
       ELSE UNCHANGED <<messages, readVars, typingVars, cacheVars>>

\* frames reach the handler only while the socket is open
NewMessage(id) == isConnected /\ onMessage(NewMessageFrame(id))

MessageDeleted(id) == isConnected /\ onMessage(MessageDeletedFrame(id))

(***************************************************************************)
(* useWebSocket: connection state and sendMessage.                         *)
(***************************************************************************)
SocketOpened ==
    /\ lastEvent' = "socketOpened"
    /\ ~isConnected
    /\ isConnected' = TRUE
    /\ UNCHANGED <<channelId, messages, storeVars, inputVars, readVars, unreadCounts,
                   typingVars, now, clientVars, cacheVars, layoutVars>>

SocketClosed ==
    /\ lastEvent' = "socketClosed"
    /\ isConnected
    /\ isConnected' = FALSE
    /\ UNCHANGED <<channelId, messages, storeVars, inputVars, readVars, unreadCounts,
                   typingVars, now, clientVars, cacheVars, layoutVars>>

\* sendMessage(payload): the payload goes out on the open channel's socket
sendMessage(out, payload) == out \cup {payload}

(***************************************************************************)
(* MessageInput.                                                           *)
(***************************************************************************)
\* handleInputChange: setInputMessage(e.target.value)
TypeDraft ==
    /\ lastEvent' = "handleInputChange"
    /\ ~inputMessage
    /\ inputMessage' = TRUE
    /\ UNCHANGED <<channelId, messages, storeVars, activeThread, wsOut, isConnected,
                   readVars, unreadCounts, typingVars, now, clientVars, cacheVars, layoutVars>>

\* the reply button of a rendered message: setActiveThread(msg)
SelectThread(i) ==
    /\ lastEvent' = "setActiveThread"
    /\ i \in DOMAIN messages
    /\ activeThread # messages[i].id
    /\ activeThread' = messages[i].id
    /\ UNCHANGED <<channelId, messages, storeVars, inputMessage, wsOut, isConnected,
                   readVars, unreadCounts, typingVars, now, clientVars, cacheVars, layoutVars>>

CanSendAlways(draft, connected) == draft

\* if (inputMessage.trim() && isConnected)
CanSend(draft, connected) == draft /\ connected

\* the form is submitted: a send attempt, connected or not
handleSendMessage ==
    /\ lastEvent' = "handleSendMessage"
    /\ IF CanSend(inputMessage, isConnected)
       THEN /\ wsOut' = sendMessage(wsOut, [channel_id |-> channelId,
                                            parent_id |-> activeThread])
            /\ inputMessage' = FALSE
            /\ activeThread' = NoParent
       ELSE UNCHANGED inputVars
    /\ UNCHANGED <<channelId, messages, storeVars, isConnected, readVars, unreadCounts,
                   typingVars, now, clientVars, cacheVars, layoutVars>>

(***************************************************************************)
(* The message store: channel switches, history, live messages, deletes,   *)
(* sends.                                                                  *)
(***************************************************************************)
Next ==
    \/ \E c \in Channels : SwitchChannel(c)
    \/ \E c \in Channels : \E page \in PagesOf(c) : HistoryPageLoaded(c, page)
    \/ \E c \in Channels : \E page \in PagesOf(c) : HistoryRefetched(c, page)
    \/ RunMergeTimer
    \/ \E id \in MsgIds : NewMessage(id)
    \/ \E id \in MsgIds : ChannelOf(id) = channelId /\ MessageDeleted(id)
    \/ MarkReadSuccess
    \/ MarkReadFailure
    \/ SocketOpened
    \/ SocketClosed

Spec == Init /\ [][Next]_vars

(***************************************************************************)
(* Sending: the draft, the reply thread, the socket and the echoes.        *)
(***************************************************************************)
NextSend ==
    \/ SocketOpened
    \/ SocketClosed
    \/ TypeDraft
    \/ \E i \in 1..MaxMsgId : SelectThread(i)
    \/ handleSendMessage
    \/ \E id \in MsgIds : ChannelOf(id) = channelId /\ NewMessage(id)
    \/ MarkReadSuccess

SpecSend == Init /\ [][NextSend]_vars

(***************************************************************************)
(* Typing indicators: signals, expiry timers and the clock.  A timer fires *)
(* when it is due: the clock does not pass a pending timer's due time.     *)
(***************************************************************************)
Typing(u, t) == isConnected /\ onMessage(TypingFrame(u, t))

\* the setTimeout(..., 5000) callback
TypingExpire ==
    \E t \in timers :
        /\ t.due <= now
        /\ lastEvent' = "typingExpired"
        /\ typingUsers' = MapDelete(typingUsers, t.user_id)
        /\ timers' = timers \ {t}
        /\ UNCHANGED <<channelId, messages, storeVars, inputVars, isConnected, readVars,
                       unreadCounts, typingTimeoutRef, now, clientVars, cacheVars, layoutVars>>

Tick ==
    /\ now < MaxTime
    /\ \A t \in timers : t.due > now
    /\ lastEvent' = "tick"
    /\ now' = now + 1
    /\ UNCHANGED <<channelId, messages, storeVars, inputVars, isConnected, readVars,
                   unreadCounts, typingVars, cacheVars, layoutVars, clientVars>>

NextTyping ==
    \/ SocketOpened
    \/ \E u \in Users : \E t \in BOOLEAN : Typing(u, t)
    \/ TypingExpire
    \/ Tick
    \/ \E c \in Channels : SwitchChannel(c)

SpecTyping == Init /\ [][NextTyping]_vars

(***************************************************************************)
(* The ['channel', c] query of ChatPage.                                   *)
(***************************************************************************)
ChannelLoaded(c, unread) ==
    /\ lastEvent' = "channelLoaded"
    /\ channelCache' = [channelCache EXCEPT ![c].loaded = TRUE,
                                            ![c].unread_count = unread]
    /\ channelCache' # channelCache
    /\ UNCHANGED <<channelId, messages, storeVars, inputVars, isConnected, readVars,
                   unreadCounts, typingVars, now, clientVars, membersCache, lastReceipt, layoutVars>>

(***************************************************************************)
(* MainLayout: the ['channels'] snapshot and the global socket.            *)
(***************************************************************************)
ChannelsLoadedAdding(counts, muted) ==
    /\ lastEvent' = "syncUnreads"
    /\ channels' = [loaded |-> TRUE, unread_count |-> counts, muted |-> muted]
    /\ unreadCounts' = [c \in Channels |-> unreadCounts[c] + counts[c]]
    /\ UNCHANGED <<channelId, messages, storeVars, inputVars, isConnected, readVars,
                   typingVars, now, clientVars, cacheVars, notify_sound, notify_browser, effects,
                   unreadDocs>>

\* the ['channels'] query resolves; the effect on [channels] calls syncUnreads
ChannelsLoaded(counts, muted) ==
    /\ lastEvent' = "syncUnreads"
    /\ channels' = [loaded |-> TRUE, unread_count |-> counts, muted |-> muted]
    /\ unreadCounts' = syncUnreads(unreadCounts, counts)
    /\ UNCHANGED <<channelId, messages, storeVars, inputVars, isConnected, readVars,
                   typingVars, now, clientVars, cacheVars, notify_sound, notify_browser, effects,
                   unreadDocs>>

\* channel?.mute_until ? new Date(channel.mute_until) > new Date() : false
IsMuted(c) == channels.loaded /\ c \in channels.muted

\* the side effects of onMessageReceived for a message of a channel not open
NotifyEffects(isMuted, isDocumentShare, isMentioned) ==
    (IF notify_sound /\ ~isMuted THEN {"sound"} ELSE {})
    \cup (IF notify_browser /\ ~isDocumentShare /\ ~isMuted
          THEN (IF isMentioned THEN {"toast"} ELSE {}) \cup {"os"}
          ELSE {})

\* the global socket's notice of message id of the server: its channel, its
\* author, whether it mentions the signed-in user, the document it shares
MessageFrame(id, mentioned, doc) ==
    [id |-> id, channel_id |-> ChannelOf(id), user_id |-> AuthorOf(id),
     is_mentioned |-> mentioned, document_id |-> doc]

DocumentSharedFrame(c, doc) == [channel_id |-> c, document_id |-> doc]

onMessageReceived(msgData) ==
    LET c == msgData.channel_id
        isDocumentShare == msgData.document_id # NoDocument
    IN  /\ lastEvent' = "onMessageReceived"
        /\ IF channelId # c
           THEN /\ unreadCounts[c] < MaxUnread
                /\ unreadCounts' = addUnread(unreadCounts, c)
                /\ unreadDocs' = IF isDocumentShare
                                 THEN addDocUnread(unreadDocs, msgData.document_id, c)
                                 ELSE unreadDocs
                /\ effects' = NotifyEffects(IsMuted(c), isDocumentShare,
                                            msgData.is_mentioned)
           ELSE /\ effects' = {}
                /\ UNCHANGED <<unreadCounts, unreadDocs>>
        /\ UNCHANGED <<channelId, messages, storeVars, inputVars, isConnected, readVars,
                       typingVars, now, clientVars, cacheVars, channels, notify_sound,
                       notify_browser>>

onDocumentShared(sharedData) ==
    /\ lastEvent' = "onDocumentShared"
    /\ effects' = {"toast"} \cup (IF notify_browser THEN {"os"} ELSE {})
    /\ unreadDocs' = IF channelId # Board /\ sharedData.channel_id # channelId
                     THEN addDocUnread(unreadDocs, sharedData.document_id,
                                       sharedData.channel_id)
                     ELSE unreadDocs
    /\ UNCHANGED <<channelId, messages, storeVars, inputVars, isConnected, readVars,
                   unreadCounts, typingVars, now, clientVars, cacheVars, channels, notify_sound,
                   notify_browser>>

\* the user edits the notification settings
SetPreferences(sound, browser) ==
    /\ <<sound, browser>> # <<notify_sound, notify_browser>>
    /\ lastEvent' = "setPreferences"
    /\ notify_sound' = sound
    /\ notify_browser' = browser
    /\ UNCHANGED <<channelId, messages, storeVars, inputVars, isConnected, readVars,
                   unreadCounts, typingVars, now, clientVars, cacheVars, channels, effects,
                   unreadDocs>>

(***************************************************************************)
(* Mark-read: requests in flight against switches, snapshots and inbound   *)
(* messages.                                                               *)
(***************************************************************************)
NextMarkRead ==
    \/ \E c \in Channels : SwitchChannel(c)
    \/ \E c \in Channels : \E unread \in 0..1 : ChannelLoaded(c, unread)
    \/ MarkAsReadEffect
    \/ MarkReadSuccess
    \/ MarkReadFailure
    \/ \E id \in MsgIds : onMessageReceived(MessageFrame(id, FALSE, NoDocument))
    \/ \E counts \in [Channels -> 0..MaxUnread] : ChannelsLoaded(counts, {})

SpecMarkRead == Init /\ [][NextMarkRead]_vars

(***************************************************************************)
(* Notification routing.                                                   *)
(***************************************************************************)
NextNotify ==
    \/ \E c \in Channels : SwitchChannel(c)
    \/ \E id \in MsgIds : \E mentioned \in BOOLEAN :
          \E doc \in DocIds \cup {NoDocument} :
             onMessageReceived(MessageFrame(id, mentioned, doc))
    \/ \E c \in Channels : \E doc \in DocIds :
          onDocumentShared(DocumentSharedFrame(c, doc))
    \/ \E counts \in [Channels -> 0..MaxUnread] : \E muted \in SUBSET Channels :
          ChannelsLoaded(counts, muted)
    \/ \E sound \in BOOLEAN : \E browser \in BOOLEAN : SetPreferences(sound, browser)

SpecNotify == Init /\ [][NextNotify]_vars

(***************************************************************************)
(* Channel switches against deferred history merges; the channel socket    *)
(* delivers the open channel's messages only.                              *)
(***************************************************************************)
NextSwitch ==
    \/ \E c \in Channels : SwitchChannel(c)
    \/ \E c \in Channels : \E page \in PagesOf(c) : HistoryPageLoaded(c, page)
    \/ RunMergeTimer
    \/ SocketOpened
    \/ \E id \in MsgIds : ChannelOf(id) = channelId /\ NewMessage(id)
    \/ MarkReadSuccess

SpecSwitch == Init /\ [][NextSwitch]_vars

(***************************************************************************)
(* Deletions against history pages loaded before and after them.           *)
(***************************************************************************)
NextDelete ==
    \/ SocketOpened
    \/ \E c \in Channels : SwitchChannel(c)
    \/ \E page \in PagesOf(channelId) : HistoryPageLoaded(channelId, page)
    \/ RunMergeTimer
    \/ \E id \in MsgIds : ChannelOf(id) = channelId /\ MessageDeleted(id)

SpecDelete == Init /\ [][NextDelete]_vars

(***************************************************************************)
(* Delivery of message events, repeated deliveries included, with no       *)
(* snapshot in between: a counter only grows by a message event.           *)
(***************************************************************************)
NextDelivery ==
    \/ \E c \in Channels : SwitchChannel(c)
    \/ \E id \in MsgIds : \E mentioned \in BOOLEAN :
          \E doc \in DocIds \cup {NoDocument} :
             onMessageReceived(MessageFrame(id, mentioned, doc))
    \/ \E sound \in BOOLEAN : \E browser \in BOOLEAN : SetPreferences(sound, browser)

SpecDelivery == Init /\ [][NextDelivery]_vars

(***************************************************************************)
(* The history merge on its own: a pending merge of any pages of the open  *)
(* channel against any list the live frames can have built.                *)
(***************************************************************************)
\* the sequences of distinct members of S, in every order
RECURSIVE Arrangements(_)
Arrangements(S) ==
    {<<>>} \cup UNION {{<<x>> \o rest : rest \in Arrangements(S \ {x})} : x \in S}

\* up to MaxPages pages of channel c
RECURSIVE PageLists(_, _)
PageLists(c, n) ==
    IF n = 0 THEN {<<>>}
    ELSE PageLists(c, n - 1)
         \cup {Append(pages, page) : pages \in PageLists(c, n - 1), page \in PagesOf(c)}

InitMerge ==
    /\ channelId \in Channels
    /\ messages \in {[i \in DOMAIN ids |-> ServerMessage(ids[i])] : ids \in Arrangements(MsgIds)}
    /\ \E pages \in PageLists(channelId, MaxPages) \ {<<>>} :
          /\ historyPages = [c \in Channels |-> IF c = channelId THEN pages ELSE <<>>]
          /\ mergeTimers = <<pages>>
    /\ deleted = {}
    /\ pageRequests = [c \in Channels |-> 0]
    /\ Mounted

NextMerge == RunMergeTimer

SpecMerge == InitMerge /\ [][NextMerge]_vars

(***************************************************************************)
(* Frames of unknown kind, without a type, without an id.                  *)
(***************************************************************************)
UnknownKind(id) == isConnected /\ onMessage(UnknownFrame(id))

Typeless(id) == isConnected /\ onMessage(TypelessFrame(id))

Idless(c, u) == isConnected /\ onMessage(IdlessFrame(c, u))

NextFrames ==
    \/ SocketOpened
    \/ \E id \in MsgIds : NewMessage(id)
    \/ \E id \in MsgIds : UnknownKind(id)
    \/ \E id \in MsgIds : Typeless(id)
    \/ \E c \in Channels : \E u \in Reactors : Idless(c, u)
    \/ \E u \in Reactors : \E t \in BOOLEAN : Typing(u, t)
    \/ MarkReadSuccess

SpecFrames == Init /\ [][NextFrames]_vars

(***************************************************************************)
(* Reactions on the messages of the open channel.                          *)
(***************************************************************************)
ReactionAdded(id, u, e) ==
    /\ isConnected
    /\ \A i \in DOMAIN messages :
          messages[i].id = id =>
              \/ HasReaction(messages[i].reactions, u, e)
              \/ Cardinality({<<j, k>> \in (DOMAIN messages) \X (1..MaxReactions) :
                                 k \in DOMAIN messages[j].reactions}) < MaxReactions
    /\ onMessage(ReactionAddedFrame(id, u, e))

ReactionRemoved(id, u, e) == isConnected /\ onMessage(ReactionRemovedFrame(id, u, e))

NextReact ==
    \/ SocketOpened
    \/ \E id \in MsgIds : ChannelOf(id) = channelId /\ NewMessage(id)
    \/ \E id \in MsgIds : \E u \in Reactors : \E e \in Emojis : ReactionAdded(id, u, e)
    \/ \E id \in MsgIds : \E u \in Reactors : \E e \in Emojis : ReactionRemoved(id, u, e)

SpecReact == Init /\ [][NextReact]_vars

(***************************************************************************)
(* Presence: the member list and online count of a channel against the     *)
(* presence events of the channel socket and of the global socket.         *)
(***************************************************************************)
\* the ['channel', c] and ['channel_members', c] queries of ChatPage resolve
\* with the same server snapshot: the members that are online, and their number
ChannelAndMembersLoaded(c, online) ==
    /\ lastEvent' = "channelAndMembersLoaded"
    /\ channelCache' = [channelCache EXCEPT ![c].loaded = TRUE,
                                            ![c].online_count = Cardinality(online)]
    /\ membersCache' = [membersCache EXCEPT ![c] = [loaded |-> TRUE, online |-> online]]
    /\ UNCHANGED <<channelId, messages, storeVars, inputVars, isConnected, readVars,
                   unreadCounts, typingVars, now, clientVars, lastReceipt, layoutVars>>

\* MainLayout.onUserPresence: the global socket's user_presence event
onUserPresence(data) ==
    LET delta == IF data.status = "online" THEN 1 ELSE -1
        isMember(c) == membersCache[c].loaded /\ data.user_id \in MembersOf(c)
    IN  /\ lastEvent' = "onUserPresence"
        /\ \A c \in Channels :
              (channelCache[c].loaded /\ isMember(c)) =>
                  channelCache[c].online_count + delta <= MaxOnline
        /\ membersCache' =
              [c \in Channels |->
                  IF isMember(c)
                  THEN [membersCache[c] EXCEPT
                          !.online = IF data.status = "online"
                                     THEN @ \cup {data.user_id}
                                     ELSE @ \ {data.user_id}]
                  ELSE membersCache[c]]
        /\ channelCache' =
              [c \in Channels |->
                  IF channelCache[c].loaded /\ isMember(c)
                  THEN [channelCache[c] EXCEPT !.online_count = Max(0, @ + delta)]
                  ELSE channelCache[c]]
        /\ UNCHANGED <<channelId, messages, storeVars, inputVars, isConnected, readVars,
                       unreadCounts, typingVars, now, clientVars, lastReceipt, layoutVars>>

\* the channel socket's presence frames
UserPresence(u, st) == isConnected /\ onMessage(UserPresenceFrame(u, st))

Presence(n) == isConnected /\ onMessage(PresenceFrame(n))

NextPresence ==
    \/ SocketOpened
    \/ \E c \in Channels : SwitchChannel(c)
    \/ \E c \in Channels : \E online \in SUBSET MembersOf(c) :
          ChannelAndMembersLoaded(c, online)
    \/ \E u \in Users : \E st \in {"online", "offline"} :
          onUserPresence(UserPresenceFrame(u, st))
    \/ \E u \in Users : \E st \in {"online", "offline"} : UserPresence(u, st)
    \/ \E n \in 0..Cardinality(MembersOf(channelId)) : Presence(n)

SpecPresence == Init /\ [][NextPresence]_vars

(***************************************************************************)
(* Backfill: older pages of the open channel fetched on scroll to the top. *)
(* PageSize stands for the page size of 50.                                *)
(***************************************************************************)
NoPageParam == -1    \* getNextPageParam returning undefined

getNextPageParamNonEmpty(lastPage, allPages) ==
    IF Len(lastPage) # 0 THEN Len(allPages) ELSE NoPageParam

\* lastPage.length === 50 ? allPages.length : undefined
getNextPageParam(lastPage, allPages) ==
    IF Len(lastPage) = PageSize THEN Len(allPages) ELSE NoPageParam

\* useInfiniteQuery's hasNextPage and isFetchingNextPage for the query of channel c
hasNextPage(c) ==
    /\ historyPages[c] # <<>>
    /\ getNextPageParam(historyPages[c][Len(historyPages[c])], historyPages[c])
          # NoPageParam

isFetchingNextPage(c) == pageRequests[c] > 0

\* the container is scrolled to the top (scrollTop < 50)
handleScroll ==
    /\ lastEvent' = "handleScroll"
    /\ pageRequests[channelId] <= MaxInFlight
    /\ IF hasNextPage(channelId) /\ ~isFetchingNextPage(channelId)
       THEN /\ Len(historyPages[channelId]) < MaxPages
            /\ pageRequests' = [pageRequests EXCEPT ![channelId] = @ + 1]
       ELSE UNCHANGED pageRequests
    /\ UNCHANGED <<channelId, messages, historyPages, mergeTimers, deleted, inputVars,
                   isConnected, readVars, unreadCounts, typingVars, now, clientVars, cacheVars,
                   layoutVars>>

\* the pages a server that honours limit=50 returns
BackfillPages(c) == {page \in PagesOf(c) : Len(page) <= PageSize}

NextBackfill ==
    \/ \E c \in Channels : SwitchChannel(c)
    \/ \E c \in Channels : \E page \in BackfillPages(c) :
          /\ \/ c = channelId /\ historyPages[c] = <<>>
             \/ isFetchingNextPage(c)
          /\ HistoryPageLoaded(c, page)
    \/ handleScroll
    \/ RunMergeTimer

SpecBackfill == Init /\ [][NextBackfill]_vars

(***************************************************************************)
(* Read receipts of the channel socket against the unread counters and     *)
(* the cached channel details.                                             *)
(***************************************************************************)
ReadReceipt(c, u, id) == isConnected /\ onMessage(ReadReceiptFrame(c, u, id))

NextReceipts ==
    \/ SocketOpened
    \/ \E c \in Channels : SwitchChannel(c)
    \/ \E c \in Channels : ChannelLoaded(c, 0)
    \/ \E id \in MsgIds : onMessageReceived(MessageFrame(id, FALSE, NoDocument))
    \/ \E c \in Channels : \E u \in Reactors : \E id \in MsgIds : ReadReceipt(c, u, id)

SpecReceipts == Init /\ [][NextReceipts]_vars

(***************************************************************************)
(* The board view: MainLayout stays mounted, ChatPage unmounts.            *)
(***************************************************************************)
\* navigation to /board: the effect on [location.pathname] clears the document
\* index; the state of the unmounted ChatPage is gone
VisitBoard ==
    /\ lastEvent' = "visitBoard"
    /\ channelId # Board
    /\ channelId' = Board
    /\ unreadDocs' = clearDocUnread(unreadDocs)
    /\ messages' = <<>>
    /\ deleted' = {}
    /\ mergeTimers' = <<>>
    /\ inputMessage' = FALSE
    /\ activeThread' = NoParent
    /\ isConnected' = FALSE
    /\ typingUsers' = <<>>
    /\ typingTimeoutRef' = <<>>
    /\ timers' = {}
    /\ UNCHANGED <<historyPages, pageRequests, wsOut, readVars, unreadCounts, now, clientVars,
                   cacheVars, channels, notify_sound, notify_browser, effects>>

NextBoard ==
    \/ \E c \in Channels : SwitchChannel(c)
    \/ VisitBoard
    \/ \E id \in MsgIds : \E doc \in DocIds \cup {NoDocument} :
          onMessageReceived(MessageFrame(id, FALSE, doc))
    \/ \E c \in Channels : \E doc \in DocIds :
          onDocumentShared(DocumentSharedFrame(c, doc))

SpecBoard == Init /\ [][NextBoard]_vars

(***************************************************************************)
(* api/client.ts: the response interceptor's 401 branch, with the token    *)
(* refresh and the queue of requests waiting for it.  A handler runs to    *)
(* its next await in one step; the refresh response resumes it.            *)
(***************************************************************************)
Queued == {failedQueue[i] : i \in DOMAIN failedQueue}

\* processQueue settles the head of the queue only
processQueueHeadOnly(reqs, error, token) ==
    [r \in Requests |->
        IF failedQueue # <<>> /\ r = Head(failedQueue)
        THEN IF error
             THEN [reqs[r] EXCEPT !.status = "rejected"]
             ELSE [reqs[r] EXCEPT !.status = "sent", !.token = token]
        ELSE reqs[r]]

\* processQueue(error, token): every queued promise is rejected, or resolved with
\* the token, and its .then replays the request with the new Authorization header
processQueue(reqs, error, token) ==
    [r \in Requests |->
        IF r \in Queued
        THEN IF error
             THEN [reqs[r] EXCEPT !.status = "rejected"]
             ELSE [reqs[r] EXCEPT !.status = "sent", !.token = token]
        ELSE reqs[r]]

MustQueueNever(refreshing) == FALSE

\* if (isRefreshing): the request waits for the refresh under way
MustQueue(refreshing) == refreshing

\* the application issues request r (once per page load); the request interceptor
\* attaches the stored token
Request(r) ==
    /\ lastEvent' = "request"
    /\ requests[r].status = "idle"
    /\ requests' = [requests EXCEPT ![r] = [status |-> "sent", retry |-> FALSE,
                                            token |-> storage.token]]
    /\ UNCHANGED <<pageVars, isRefreshing, failedQueue, storage, refreshInFlight,
                   redirecting>>

\* a response other than 401 and 403: the request settles
Response200(r) ==
    /\ lastEvent' = "response200"
    /\ requests[r].status = "sent"
    /\ requests' = [requests EXCEPT ![r].status = "resolved"]
    /\ UNCHANGED <<pageVars, isRefreshing, failedQueue, storage, refreshInFlight,
                   redirecting>>

\* the response interceptor's error handler for a 401 response to request r
Response401(r) ==
    /\ lastEvent' = "response401"
    /\ requests[r].status = "sent"
    /\ refreshInFlight <= MaxInFlight
    /\ IF ~requests[r].retry
       THEN IF MustQueue(isRefreshing)
            THEN /\ failedQueue' = Append(failedQueue, r)
                 /\ requests' = [requests EXCEPT ![r].status = "queued"]
                 /\ UNCHANGED <<isRefreshing, storage, refreshInFlight, redirecting>>
            ELSE /\ isRefreshing' = TRUE
                 /\ IF storage.refreshToken
                    THEN /\ requests' = [requests EXCEPT ![r].status = "refreshing",
                                                         ![r].retry = TRUE]
                         /\ refreshInFlight' = refreshInFlight + 1
                         /\ UNCHANGED <<failedQueue, storage, redirecting>>
                    ELSE /\ requests' = [requests EXCEPT ![r].status = "rejected",
                                                         ![r].retry = TRUE]
                         /\ storage' = [token |-> NoToken, refreshToken |-> FALSE]
                         /\ redirecting' = TRUE
                         /\ UNCHANGED <<failedQueue, refreshInFlight>>
       ELSE /\ requests' = [requests EXCEPT ![r].status = "rejected"]
            /\ UNCHANGED <<isRefreshing, failedQueue, storage, refreshInFlight,
                           redirecting>>
    /\ UNCHANGED pageVars

\* POST /auth/refresh answers with a new token pair: the try block resumes
RefreshSucceeds(r) ==
    LET access_token == storage.token + 1
    IN  /\ lastEvent' = "refreshSucceeds"
        /\ requests[r].status = "refreshing"
        /\ storage.token < MaxToken
        /\ storage' = [token |-> access_token, refreshToken |-> TRUE]
        /\ requests' = [processQueue(requests, FALSE, access_token) EXCEPT
                           ![r].status = "sent", ![r].token = access_token]
        /\ failedQueue' = <<>>
        /\ isRefreshing' = FALSE
        /\ refreshInFlight' = refreshInFlight - 1
        /\ UNCHANGED <<pageVars, redirecting>>

\* POST /auth/refresh fails: the catch block
RefreshFails(r) ==
    /\ lastEvent' = "refreshFails"
    /\ requests[r].status = "refreshing"
    /\ requests' = [processQueue(requests, TRUE, NoToken) EXCEPT ![r].status = "rejected"]
    /\ failedQueue' = <<>>
    /\ storage' = [token |-> NoToken, refreshToken |-> FALSE]
    /\ redirecting' = TRUE
    /\ isRefreshing' = FALSE
    /\ refreshInFlight' = refreshInFlight - 1
    /\ UNCHANGED pageVars

\* the navigation to /login unloads the page: the module is evaluated afresh
PageLoad ==
    /\ lastEvent' = "pageLoad"
    /\ redirecting
    /\ redirecting' = FALSE
    /\ isRefreshing' = FALSE
    /\ failedQueue' = <<>>
    /\ requests' = [r \in Requests |-> [status |-> "idle", retry |-> FALSE,
                                        token |-> NoToken]]
    /\ refreshInFlight' = 0
    /\ UNCHANGED <<pageVars, storage>>

RefreshCompletes == \E r \in Requests : RefreshSucceeds(r) \/ RefreshFails(r)

NextRefresh ==
    \/ \E r \in Requests : Request(r)
    \/ \E r \in Requests : Response200(r)
    \/ \E r \in Requests : Response401(r)
    \/ \E r \in Requests : RefreshSucceeds(r)
    \/ \E r \in Requests : RefreshFails(r)
    \/ PageLoad

SpecRefresh == Init /\ [][NextRefresh]_vars

\* the refresh request is answered eventually
SpecRefreshFair == SpecRefresh /\ WF_vars(RefreshCompletes)

(***************************************************************************)
(* Claims about the message store.                                         *)
(***************************************************************************)
Ascending(msgs) == \A i, j \in DOMAIN msgs : i < j => msgs[i].id < msgs[j].id

\* C1: handling the same new_message event twice leaves the store (messages with
\* their reply_count and reactions) as handling it once does, for every reachable
\* message list and every event, a reply to a loaded parent included.
C1_NewMessageIdempotent ==
    \A id \in MsgIds :
        LET message == AsMessage(NewMessageFrame(id))
        IN  ApplyNewMessage(ApplyNewMessage(messages, message), message)
                = ApplyNewMessage(messages, message)

\* C2: the message list never holds two entries with one id and is always in
\* strictly ascending id order.
C2_UniqueAscending == Ascending(messages)

\* C4: a merge of fetched pages yields exactly the ids of the list united with the
\* ids of the pages, in ascending order without duplicates, and keeps every entry
\* the list held.
C4_MergeIsUnion ==
    [][RunMergeTimer =>
        /\ Ids(messages') = Ids(messages) \cup Ids(Flat(Head(mergeTimers)))
        /\ Ascending(messages')
        /\ \A i \in DOMAIN messages : \E j \in DOMAIN messages' : messages'[j] = messages[i]
      ]_vars

\* C4 witness: a merge has just run on a list that held a live message the pages
\* lack and brought in messages the list lacked, from MaxPages pages.
C4_Witness ==
    /\ lastEvent = "mergeHistory"
    /\ Len(messages) = MaxMsgId
    /\ Len(historyPages[channelId]) = MaxPages
    /\ \E i \in DOMAIN messages : messages[i].id \notin Ids(Flat(historyPages[channelId]))
    /\ \E i \in DOMAIN messages : messages[i].id \in Ids(Flat(historyPages[channelId]))

\* the server's echo of a sent payload: the message of the signed-in user with the
\* payload's channel and parent
IsEcho(id) ==
    \E payload \in wsOut :
        /\ AuthorOf(id) = Me
        /\ ChannelOf(id) = payload.channel_id
        /\ ParentOf(id) = payload.parent_id

\* C3: once the echo of a sent message has been handled, the list holds exactly one
\* entry for it, under the server id, and no entry under a temporary id.
C3_EchoReconciled ==
    [][\A id \in MsgIds :
          (IsEcho(id) /\ NewMessage(id)) =>
              /\ Cardinality({i \in DOMAIN messages' : messages'[i].id = id}) = 1
              /\ \A i \in DOMAIN messages' : messages'[i].id \in MsgIds
      ]_vars

\* C3 witness: a reply was sent and its echo has just been appended.
C3_Witness ==
    /\ lastEvent = "new_message"
    /\ messages # <<>>
    /\ IsEcho(messages[Len(messages)].id)
    /\ messages[Len(messages)].parent_id # NoParent
    /\ ~inputMessage

(***************************************************************************)
(* Claims about typing indicators.                                         *)
(***************************************************************************)
\* C5: a typing entry of another user is gone no later than TypingTimeout seconds
\* after that user's latest is_typing=true signal, is removed at once by an
\* is_typing=false signal, and no timer removes it earlier than TypingTimeout
\* seconds after the latest signal.
C5_TypingExpiry ==
    /\ [](\A u \in DOMAIN typingUsers : now - typingUsers[u] <= TypingTimeout)
    /\ [][\A u \in Users \ {Me} :
            /\ Typing(u, FALSE) => u \notin DOMAIN typingUsers'
            /\ (TypingExpire /\ u \in DOMAIN typingUsers /\ u \notin DOMAIN typingUsers')
                  => now - typingUsers[u] >= TypingTimeout
         ]_vars

\* C5 witness: an entry refreshed after its first signal has just expired, on time.
C5_Witness ==
    /\ lastEvent = "typingExpired"
    /\ Other \notin DOMAIN typingUsers
    /\ Other \in DOMAIN typingTimeoutRef
    /\ typingTimeoutRef[Other] = now
    /\ now > TypingTimeout

(***************************************************************************)
(* Claims about unread counters and notifications.                         *)
(***************************************************************************)
\* C6: right after a mark-read request for channel X succeeds, unread(X) = 0,
\* whatever switches and inbound messages happened while it was in flight.
C6_MarkReadClears ==
    [][\A i \in DOMAIN markReadInFlight :
          MarkReadSucceeds(i) => unreadCounts'[markReadInFlight[i]] = 0
      ]_vars

\* C7: while channel A is open, a message for another, non-muted channel B adds
\* exactly 1 to unread(B) and fires a notification; a message for A leaves
\* unread(A) at 0 and fires none.
C7_ViewedChannelSuppression ==
    [][\A id \in MsgIds : \A mentioned \in BOOLEAN : \A doc \in DocIds \cup {NoDocument} :
          LET c == ChannelOf(id)
          IN  onMessageReceived(MessageFrame(id, mentioned, doc)) =>
                  IF c # channelId
                  THEN ~IsMuted(c) =>
                          /\ unreadCounts'[c] = unreadCounts[c] + 1
                          /\ effects' # {}
                  ELSE /\ unreadCounts[c] = 0 => unreadCounts'[c] = 0
                       /\ effects' = {}
      ]_vars

(***************************************************************************)
(* Claims about frame decoding.                                            *)
(***************************************************************************)
\* C8: handling a frame of an unknown kind changes neither the message list, nor
\* the typing set, nor the channel and member caches, nor the unread counters, nor
\* the mark-read requests, and the next new_message is still appended.
C8_UnknownKindInert ==
    [][\A id \in MsgIds :
          /\ UnknownKind(id) =>
                UNCHANGED <<messages, typingVars, cacheVars, unreadCounts, readVars>>
          /\ (lastEvent = "unknown_kind" /\ NewMessage(id) /\ id \notin Ids(messages))
                => /\ Len(messages') = Len(messages) + 1
                   /\ messages'[Len(messages')].id = id
      ]_vars

\* C8 witness: a frame of an unknown kind, carrying a message the list lacks, has
\* just been handled with messages loaded and a user typing.
C8_Witness ==
    /\ lastEvent = "unknown_kind"
    /\ messages # <<>>
    /\ Ids(messages) # MsgIds
    /\ typingUsers # <<>>

\* C9: a frame without a type field, or a new_message frame without an id, is
\* dropped: the message list and the mark-read requests stay as they were.
C9_MalformedDropped ==
    [][/\ \A id \in MsgIds :
            Typeless(id) => UNCHANGED <<messages, readVars>>
       /\ \A c \in Channels : \A u \in Reactors :
            Idless(c, u) => UNCHANGED <<messages, readVars>>
      ]_vars

(***************************************************************************)
(* Claims about reactions.                                                 *)
(***************************************************************************)
\* C10: a message never holds two reactions of one (user, emoji); reaction_added
\* for a pair the message holds and reaction_removed for a pair it lacks leave the
\* message list as it was.
C10_ReactionSet ==
    /\ \A i \in DOMAIN messages : \A u \in Users : \A e \in Emojis :
          Cardinality({k \in DOMAIN messages[i].reactions :
                          /\ messages[i].reactions[k].user_id = u
                          /\ messages[i].reactions[k].emoji = e}) <= 1
    /\ \A id \in MsgIds : \A u \in Reactors : \A e \in Emojis :
          IF \E i \in DOMAIN messages :
                /\ messages[i].id = id
                /\ HasReaction(messages[i].reactions, u, e)
          THEN AddReaction(messages, id, [user_id |-> u, emoji |-> e]) = messages
          ELSE RemoveReaction(messages, id, u, e) = messages

\* C10 witness: a reaction_added has just been handled for a message that holds
\* MaxReactions reactions, two of them of one user.
C10_Witness ==
    /\ lastEvent = "reaction_added"
    /\ \E i \in DOMAIN messages :
          /\ Len(messages[i].reactions) = MaxReactions
          /\ \E k, l \in DOMAIN messages[i].reactions :
                /\ k # l
                /\ messages[i].reactions[k].user_id = messages[i].reactions[l].user_id

\* the index of the first reaction with emoji e
FirstSeen(reactions, e) ==
    CHOOSE k \in DOMAIN reactions :
        /\ reactions[k].emoji = e
        /\ \A l \in 1..(k - 1) : reactions[l].emoji # e

\* groups is one group per emoji of reactions, in first-seen order, with the
\* number of reactions of the emoji and hasMine telling whether Me is among them
GroupsOf(groups, reactions) ==
    /\ {groups[g].emoji : g \in DOMAIN groups}
          = {reactions[k].emoji : k \in DOMAIN reactions}
    /\ \A g, h \in DOMAIN groups :
          g < h => FirstSeen(reactions, groups[g].emoji)
                      < FirstSeen(reactions, groups[h].emoji)
    /\ \A g \in DOMAIN groups :
          /\ groups[g].count
                = Cardinality({k \in DOMAIN reactions : reactions[k].emoji = groups[g].emoji})
          /\ groups[g].hasMine = HasReaction(reactions, Me, groups[g].emoji)

\* C11: groupReactions gives one group per distinct emoji, in first-seen order,
\* with count the number of reactions of the emoji and hasMine true exactly when
\* the signed-in user has one; after two reaction_added by the signed-in user for
\* one emoji nobody else used on the message, its group has count 1 and hasMine.
C11_ReactionGrouping ==
    /\ \A i \in DOMAIN messages :
          GroupsOf(groupReactions(messages[i].reactions), messages[i].reactions)
    /\ \A i \in DOMAIN messages : \A e \in Emojis :
          (\A u \in Users : ~HasReaction(messages[i].reactions, u, e)) =>
              LET r == [user_id |-> Me, emoji |-> e]
                  once == AddReaction(messages, messages[i].id, r)
                  twice == AddReaction(once, messages[i].id, r)
                  groups == groupReactions(twice[i].reactions)
              IN  \E g \in DOMAIN groups :
                      /\ groups[g].emoji = e
                      /\ groups[g].count = 1
                      /\ groups[g].hasMine

\* C11 witness: a message holds two reactions of one emoji, one of them of the
\* signed-in user, so its group counts 2 with hasMine.
C11_Witness ==
    /\ lastEvent = "reaction_added"
    /\ \E i \in DOMAIN messages :
          LET groups == groupReactions(messages[i].reactions)
          IN  /\ Len(groups) = 1
              /\ groups[1].count = 2
              /\ groups[1].hasMine

(***************************************************************************)
(* Claims about sending.                                                   *)
(***************************************************************************)
\* C12: a send attempt made while the socket is not connected transmits nothing
\* and leaves the draft and the selected reply thread as they were.
C12_SendWhileDisconnected ==
    [][(handleSendMessage /\ ~isConnected) =>
          UNCHANGED <<wsOut, inputMessage, activeThread>>
      ]_vars

\* C12 witness: a send was attempted with the socket closed, a draft typed and a
\* reply thread selected, and both are still there.
C12_Witness ==
    /\ lastEvent = "handleSendMessage"
    /\ ~isConnected
    /\ inputMessage
    /\ activeThread # NoParent

\* C13: an inbound event of a muted channel (a message, a mention, a document
\* share carrying the channel's id) produces no toast, no sound and no system
\* notification.
C13_MuteSuppression ==
    [][/\ \A id \in MsgIds : \A mentioned \in BOOLEAN : \A doc \in DocIds \cup {NoDocument} :
            (IsMuted(ChannelOf(id)) /\ onMessageReceived(MessageFrame(id, mentioned, doc)))
                => effects' = {}
       /\ \A c \in Channels : \A doc \in DocIds :
            (IsMuted(c) /\ onDocumentShared(DocumentSharedFrame(c, doc)))
                => effects' = {}
      ]_vars

\* C14: a message event raises unread(c) only when the message is not the
\* signed-in user's own and c is not the open channel; the user's own message
\* raises no counter and fires no notification.
C14_UnreadGuard ==
    [][\A id \in MsgIds : \A mentioned \in BOOLEAN : \A doc \in DocIds \cup {NoDocument} :
          onMessageReceived(MessageFrame(id, mentioned, doc)) =>
              /\ \A c \in Channels :
                    unreadCounts'[c] > unreadCounts[c] =>
                        /\ c = ChannelOf(id)
                        /\ c # channelId
                        /\ AuthorOf(id) # Me
              /\ AuthorOf(id) = Me =>
                    /\ unreadCounts' = unreadCounts
                    /\ effects' = {}
      ]_vars

\* C20: a message that mentions the signed-in user, of a channel neither muted nor
\* open, produces the toast whatever notify_sound and notify_browser are; of a
\* muted channel it produces no toast.
C20_MentionEscalation ==
    [][\A id \in MsgIds : \A doc \in DocIds \cup {NoDocument} :
          (ChannelOf(id) # channelId /\ onMessageReceived(MessageFrame(id, TRUE, doc))) =>
              ("toast" \in effects') = ~IsMuted(ChannelOf(id))
      ]_vars

\* C15: a repeated message event raises no counter again: with counters raised
\* by message events only, unread(c) never exceeds the number of distinct
\* messages of channel c.
C15_NoDoubleCount ==
    \A c \in Channels :
        unreadCounts[c] <= Cardinality({id \in MsgIds : ChannelOf(id) = c})

\* C16: a channel-list snapshot sets unread(c) to the snapshot's unread_count for
\* every channel of the snapshot, whatever the local value was; any other step
\* raises a counter by at most 1, and only a message event raises one.
C16_SnapshotReplaces ==
    [][IF lastEvent' = "syncUnreads"
       THEN \A c \in Channels : unreadCounts'[c] = channels'.unread_count[c]
       ELSE \A c \in Channels :
               /\ unreadCounts'[c] <= unreadCounts[c] + 1
               /\ unreadCounts'[c] > unreadCounts[c] => lastEvent' = "onMessageReceived"
      ]_vars

\* C16 witness: a snapshot has just been applied after a message event had raised
\* a counter, and the counter of a channel that is not open is the snapshot's 1.
C16_Witness ==
    /\ lastEvent = "syncUnreads"
    /\ effects # {}
    /\ \E c \in Channels :
          /\ c # channelId
          /\ channels.unread_count[c] = 1
          /\ unreadCounts[c] = 1

(***************************************************************************)
(* Claims about channel switches and deletions.                            *)
(***************************************************************************)
\* C17: every message of the list belongs to the open channel, whatever the
\* interleaving of switches, deferred history merges and live messages.
C17_ChannelIsolation ==
    \A i \in DOMAIN messages : messages[i].channel_id = channelId

\* C18: a message_deleted event removes the message from the list, and no later
\* merge of history pages brings back a message deleted since the channel was
\* opened.
C18_DeletionPermanent ==
    [][/\ \A id \in MsgIds : MessageDeleted(id) => id \notin Ids(messages')
       /\ RunMergeTimer => \A id \in deleted : id \notin Ids(messages')
      ]_vars

\* C19: right after the open channel changes the typing set is empty and no
\* expiry timer started for a user of the previous channel is pending.
C19_TypingTornDown ==
    [][\A c \in Channels :
          SwitchChannel(c) => (typingUsers' = <<>> /\ timers' = {})
      ]_vars

(***************************************************************************)
(* Claims about the notification fan-out.                                  *)
(***************************************************************************)
\* C21: a message event of another user's message, of a channel neither muted
\* nor open, always produces the toast, plays the sound exactly when
\* notify_sound is on, and sends the system notification exactly when
\* notify_browser is on.
C21_NotificationFanOut ==
    [][\A id \in MsgIds : \A mentioned \in BOOLEAN : \A doc \in DocIds \cup {NoDocument} :
          (/\ AuthorOf(id) # Me
           /\ ChannelOf(id) # channelId
           /\ ~IsMuted(ChannelOf(id))
           /\ onMessageReceived(MessageFrame(id, mentioned, doc))) =>
              /\ "toast" \in effects'
              /\ ("sound" \in effects') = notify_sound
              /\ ("os" \in effects') = notify_browser
      ]_vars

(***************************************************************************)
(* Claims about presence.                                                  *)
(***************************************************************************)
\* C22: whatever user_presence and presence events were handled, the cached
\* online_count of a channel whose member list is cached equals the number of
\* cached members that are online.
C22_DerivedOnlineCount ==
    \A c \in Channels :
        (channelCache[c].loaded /\ membersCache[c].loaded) =>
            channelCache[c].online_count = Cardinality(membersCache[c].online)

C24_SelfReceiptClears ==
    [][(lastEvent' = "read_receipt" /\ lastReceipt'.user_id = Me) =>
          unreadCounts'[lastReceipt'.channel_id] = 0
      ]_vars

(***************************************************************************)
(* Claims about the document index.                                        *)
(***************************************************************************)
\* C25: the document index holds a document once however it was announced; a
\* document announced while the board view or its origin channel is open is not
\* added; and the index is empty whenever the board view is open.
C25_DocumentIndex ==
    [][/\ \A id \in MsgIds : \A doc \in DocIds :
            (/\ channelId \in {Board, ChannelOf(id)}
             /\ onMessageReceived(MessageFrame(id, FALSE, doc)))
                => unreadDocs' = unreadDocs
       /\ \A c \in Channels : \A doc \in DocIds :
            (/\ channelId \in {Board, c}
             /\ onDocumentShared(DocumentSharedFrame(c, doc)))
                => unreadDocs' = unreadDocs
       /\ \A doc \in DocIds :
            (doc \in DOMAIN unreadDocs /\ lastEvent' \in {"onMessageReceived", "onDocumentShared"})
                => DOMAIN unreadDocs' = DOMAIN unreadDocs
       /\ channelId' = Board => unreadDocs' = <<>>
      ]_vars

\* C26: the open channel's others_read_id changes only by a read_receipt frame
\* of that channel from a user other than the signed-in user; a receipt of the
\* signed-in user, or of another channel, leaves it as it was.
C26_OthersReadCounterpart ==
    [][\A c \in Channels :
          channelCache'[c].others_read_id # channelCache[c].others_read_id =>
              /\ lastEvent' = "read_receipt"
              /\ c = channelId
              /\ lastReceipt'.channel_id = c
              /\ lastReceipt'.user_id # Me
      ]_vars

C28_Every401Queued ==
    [][/\ refreshInFlight' <= 1
       /\ \A r \in Requests :
            (/\ lastEvent' = "response401"
             /\ requests'[r] # requests[r]
             /\ refreshInFlight = 1) =>
                /\ failedQueue' = Append(failedQueue, r)
                /\ refreshInFlight' = 1
      ]_vars

\* C28, amended: at most one refresh request is in flight, and every 401
\* response to a request not yet retried, handled while a refresh is in flight,
\* puts the request on failedQueue and starts no refresh.
C28_SingleRefresh ==
    [][/\ refreshInFlight' <= 1
       /\ \A r \in Requests :
            (/\ lastEvent' = "response401"
             /\ requests'[r] # requests[r]
             /\ ~requests[r].retry
             /\ refreshInFlight = 1) =>
                /\ failedQueue' = Append(failedQueue, r)
                /\ requests'[r].status = "queued"
                /\ refreshInFlight' = 1
      ]_vars

\* C28 witness: two requests failed with 401 while the refresh a third one
\* started is in flight, and both wait on failedQueue.
C28_Witness ==
    /\ lastEvent = "response401"
    /\ refreshInFlight = 1
    /\ Len(failedQueue) = 2
    /\ \E r \in Requests : requests[r].status = "refreshing"

C30_FlagReleased == isRefreshing => refreshInFlight > 0

====
